---------------------------- MODULE Spec2Model ----------------------------
(***************************************************************************)
(* A model of the Review Scraper: the text processor (clean / translate),  *)
(* the per-element review extraction, the consent-dialog handler, the      *)
(* scroll-to-load loop, the capped extraction of all reviews, the browser  *)
(* manager and the driver ReviewScraperApp.run().                          *)
(*                                                                         *)
(* Python values are encoded as follows.  A string is a sequence of        *)
(* characters (one-character TLA+ strings); a literal the code compares    *)
(* against ("No review text", "Unknown") is a sequence of one opaque       *)
(* token.  An Optional value is <<>> for None and <<x>> for x, except an   *)
(* Optional[str] text, whose None is NoneText.  The browser-automation,    *)
(* emoji and translation libraries are the environment: each call into     *)
(* them draws its outcome (a value, or "raise") from a small set.          *)
(***************************************************************************)
EXTENDS Integers, Sequences, FiniteSets, TLC

\* ------------------------------------------------------------------ bounds
MaxTextLen == 3
MaxOps == 2
MaxCount == 2
MaxAttempts == 8
\* BrowserManager: the calls made on one manager.
MaxCalls == 3

\* ------------------------------------------------------------------ values
None == <<>>
Some(x) == <<x>>
NoneText == <<"<None>">>
NoReviewText == <<"No review text">>
UnknownReviewer == <<"Unknown">>
NoRating == <<"No rating">>

\* "a": a letter; " " and "\n": whitespace; "E": a one-code-point emoji
\* (U+1F600); "#" followed by "K" (U+20E3, combining enclosing keycap) is the
\* two-code-point keycap emoji, while "#" alone and "K" alone are no emoji.
Chars == {"a", " ", "\n", "E", "#", "K"}
WhitespaceChars == {" ", "\n"}

RECURSIVE SeqsUpTo(_, _)
SeqsUpTo(S, n) ==
    IF n = 0 THEN {<<>>}
    ELSE LET shorter == SeqsUpTo(S, n - 1)
         IN  shorter \cup {Append(s, c) : s \in shorter, c \in S}

VARIABLES
    enable_translation,  \* TextProcessor.enable_translation
    translator_obj,      \* TextProcessor._translator: None or Some("GoogleTranslator")
    translate_calls,     \* number of calls of GoogleTranslator.translate so far
    ops,                 \* number of text-processor operations applied so far
    arg,                 \* the text the next operation is applied to
    arg_element,         \* the review element extract_single_review is applied to
    last,                \* the last operation applied: its name, input and output
    pc,                  \* where the program is: the function and the place in it
    queried,             \* handle_cookie_consent: the selectors queried, in order
    clicked,             \* handle_cookie_consent: the selectors whose click() returned
    cookie_result,       \* handle_cookie_consent: None, or Some(the value returned)
    max_attempts,        \* scroll_to_load_reviews: its parameter, None or Some(n)
    scroll_attempt,      \* scroll_to_load_reviews: the loop index of the next attempt
    previous_count,      \* scroll_to_load_reviews: previous_count
    wheel_calls,         \* scroll_to_load_reviews: calls of page.mouse.wheel so far
    attempt,             \* scroll_to_load_reviews: the last attempt made
    scroll_result,       \* scroll_to_load_reviews: None, or Some(the value returned)
    max_reviews,         \* extract_all_reviews: its parameter, None or Some(n)
    total_found,         \* extract_all_reviews: total_found
    to_process,          \* extract_all_reviews: the length of the slice iterated
    index,               \* extract_all_reviews: the loop index i of the next element
    reviews,             \* extract_all_reviews: reviews
    errors,              \* extract_all_reviews: errors
    result,              \* extract_all_reviews: None, or Some(the ScrapingResult)
    bm,                  \* BrowserManager: its four handles, and what was opened and closed
    ctor_max_reviews,    \* ReviewScraperApp.__init__: its max_reviews argument
    self_max_reviews,    \* ReviewScraperApp.max_reviews
    calls,               \* run: the steps invoked so far, in order
    returned,            \* run: the steps that have returned, with their values
    run_result,          \* run: None, or Some(the ScrapingResult returned)
    escaped,             \* run: an exception left run()
    formats,             \* save_results: its formats argument, None or Some(a set)
    written,             \* save_results: the paths of the files written in the call
    saved_files          \* save_results: Some(the dictionary it builds and returns)

textVars ==
    <<enable_translation, translator_obj, translate_calls, ops, arg,
      arg_element, last>>

cookieVars == <<queried, clicked, cookie_result>>
scrollVars ==
    <<max_attempts, scroll_attempt, previous_count, wheel_calls, attempt,
      scroll_result>>
extractVars == <<max_reviews, total_found, to_process, index, reviews, errors, result>>
runVars ==
    <<bm, ctor_max_reviews, self_max_reviews, calls, returned, run_result, escaped>>
saveVars == <<formats, written, saved_files>>
vars == <<textVars, pc, cookieVars, scrollVars, extractVars, runVars, saveVars>>

target_language == "en"

\* ---------------------------------------------------------- TextProcessor

IsSpace(c) == c \in WhitespaceChars

\* emoji.replace_emoji(text, replace=''): one left-to-right pass that drops
\* every emoji it matches at the cursor and copies every other character;
\* the result is not scanned again.
RECURSIVE replace_emoji(_)
replace_emoji(s) ==
    IF s = <<>> THEN <<>>
    ELSE IF Head(s) = "E" THEN replace_emoji(Tail(s))
    ELSE IF Head(s) = "#" /\ Len(s) >= 2 /\ s[2] = "K"
         THEN replace_emoji(SubSeq(s, 3, Len(s)))
    ELSE <<Head(s)>> \o replace_emoji(Tail(s))

\* re.sub(r'\s+', ' ', text): every maximal run of whitespace becomes one " ".
RECURSIVE sub_whitespace(_)
sub_whitespace(s) ==
    IF s = <<>> THEN <<>>
    ELSE IF IsSpace(Head(s))
         THEN IF Len(s) >= 2 /\ IsSpace(s[2])
              THEN sub_whitespace(Tail(s))
              ELSE <<" ">> \o sub_whitespace(Tail(s))
    ELSE <<Head(s)>> \o sub_whitespace(Tail(s))

\* str.strip(): leading and trailing whitespace removed.
RECURSIVE lstrip(_)
lstrip(s) == IF s /= <<>> /\ IsSpace(Head(s)) THEN lstrip(Tail(s)) ELSE s

RECURSIVE rstrip(_)
rstrip(s) ==
    IF s /= <<>> /\ IsSpace(s[Len(s)]) THEN rstrip(SubSeq(s, 1, Len(s) - 1)) ELSE s

strip(s) == rstrip(lstrip(s))

\* Python truthiness of an Optional[str].
Falsy(text) == text = NoneText \/ text = <<>>

clean_text(text) ==
    IF Falsy(text) THEN <<>>
    ELSE strip(sub_whitespace(replace_emoji(text)))

\* What GoogleTranslator.translate returns when it does not raise: the text
\* itself, or some other text.
TranslatorOutcomes == {"raise", "same", "changed"}
\* What the GoogleTranslator constructor does when the property creates it.
CtorOutcomes == {"ok", "raise"}
\* One draw for a call of translate_text: the constructor's outcome (read
\* only when the translator is created) and the translator's.
Draws == {<<"raise", "same">>} \cup {<<"ok", o>> : o \in TranslatorOutcomes}
TranslatorOutput(text, outcome) ==
    IF outcome = "changed" THEN <<"t">> \o text ELSE text

\* The state of a TextProcessor as the operators below thread it.
TpState == [translator_obj |-> translator_obj, translate_calls |-> translate_calls]

\* The translator property: creates the GoogleTranslator on first use, only
\* when translation is enabled.  ctor is the constructor's outcome.
translator(st, ctor) ==
    IF st.translator_obj = None /\ enable_translation
    THEN IF ctor = "raise" THEN [raised |-> TRUE, st |-> st]
         ELSE [raised |-> FALSE,
               st |-> [st EXCEPT !.translator_obj = Some("GoogleTranslator")]]
    ELSE [raised |-> FALSE, st |-> st]

translate_text_trusts_translator(text, st, ctor, outcome) ==
    IF ~enable_translation \/ Falsy(text) \/ strip(text) = <<>> \/ text = NoReviewText
    THEN [out |-> <<text, FALSE, None>>, st |-> st]
    ELSE LET got == translator(st, ctor)
         IN  IF got.raised \/ got.st.translator_obj = None
             THEN [out |-> <<text, FALSE, None>>, st |-> got.st]
             ELSE LET called == [got.st EXCEPT !.translate_calls = @ + 1]
                      translated == TranslatorOutput(text, outcome)
                  IN  IF outcome = "raise"
                      THEN [out |-> <<text, FALSE, None>>, st |-> called]
                      ELSE [out |-> <<translated, TRUE, Some("auto")>>, st |-> called]

translate_text(text, st, ctor, outcome) ==
    IF ~enable_translation \/ Falsy(text) \/ strip(text) = <<>> \/ text = NoReviewText
    THEN [out |-> <<text, FALSE, None>>, st |-> st]
    ELSE LET got == translator(st, ctor)
         IN  IF got.raised \/ got.st.translator_obj = None
             THEN [out |-> <<text, FALSE, None>>, st |-> got.st]
             ELSE LET called == [got.st EXCEPT !.translate_calls = @ + 1]
                      translated == TranslatorOutput(text, outcome)
                  IN  IF outcome = "raise"
                      THEN [out |-> <<text, FALSE, None>>, st |-> called]
                      ELSE IF translated /= text
                      THEN [out |-> <<translated, TRUE, Some("auto")>>, st |-> called]
                      ELSE [out |-> <<text, FALSE, Some(target_language)>>, st |-> called]

process_text_reports_language(text, st, ctor, outcome) ==
    LET cleaned_text == clean_text(text)
    IN  IF enable_translation
        THEN translate_text(cleaned_text, st, ctor, outcome)
        ELSE [out |-> <<cleaned_text, FALSE, Some(target_language)>>, st |-> st]

process_text(text, st, ctor, outcome) ==
    LET cleaned_text == clean_text(text)
    IN  IF enable_translation
        THEN translate_text(cleaned_text, st, ctor, outcome)
        ELSE [out |-> <<cleaned_text, FALSE, None>>, st |-> st]

\* -------------------------------------------------------- ReviewExtractor

\* A review element of the page: what each of its three sub-element lookups
\* gives.  kind "absent": count() is 0; "raise": the read times out or the
\* locator is ambiguous; "value": the read returns v.
Absent == [kind |-> "absent", v |-> <<>>]
Raises == [kind |-> "raise", v |-> <<>>]
Value(x) == [kind |-> "value", v |-> x]

ReviewerSamples == {<<"a">>, <<" ", "a", "E">>}
RatingSamples == {NoneText, <<>>, <<"5">>}
TextSamples == {<<"a", " ", " ", "a">>, <<"E">>, NoReviewText, <<>>}

Fields(samples) == {Absent, Raises} \cup {Value(x) : x \in samples}
Elements ==
    [reviewer : Fields(ReviewerSamples), rating : Fields(RatingSamples),
     text : Fields(TextSamples)]

business_name == "Rex"

\* rating or "No rating"
RatingOrDefault(rating) == IF Falsy(rating) THEN NoRating ELSE rating

extract_single_review(element, st, ctorA, outcomeA, ctorB, outcomeB) ==
    IF "raise" \in {element.reviewer.kind, element.rating.kind, element.text.kind}
    THEN [review |-> None, st |-> st]
    ELSE LET reviewer == IF element.reviewer.kind = "value"
                         THEN element.reviewer.v ELSE UnknownReviewer
             rating == IF element.rating.kind = "value"
                       THEN element.rating.v ELSE NoRating
             review_text == IF element.text.kind = "value"
                            THEN element.text.v ELSE NoReviewText
             first == process_text(reviewer, st, ctorA, outcomeA)
             second == process_text(review_text, first.st, ctorB, outcomeB)
         IN  [review |-> Some([reviewer |-> first.out[1],
                               rating |-> RatingOrDefault(rating),
                               review_text |-> second.out[1],
                               business_name |-> business_name,
                               translated |-> second.out[2],
                               original_language |-> second.out[3]]),
              st |-> second.st]

\* settings.DEFAULT_MAX_REVIEWS
DEFAULT_MAX_REVIEWS == 100

Min(a, b) == IF a <= b THEN a ELSE b
Max(a, b) == IF a >= b THEN a ELSE b

\* len(lst[:k]): Python's slice takes the first k items for k >= 0 and all
\* but the last -k items for k < 0.
SliceLen(len, k) == IF k >= 0 THEN Min(k, len) ELSE Max(0, len + k)

\* The elements the page shows in a run of the extraction loop.
PageElements ==
    { [reviewer |-> Value(<<"a">>), rating |-> Value(<<"5">>),
       text |-> Value(<<"a", " ", " ", "a">>)],
      [reviewer |-> Absent, rating |-> Absent, text |-> Absent],
      [reviewer |-> Value(<<"a">>), rating |-> Raises, text |-> Absent] }

\* ScrapingResult(business_name, reviews, total_found, total_extracted, errors)
ScrapingResult(rs, found, es) ==
    [business_name |-> business_name, reviews |-> rs, total_found |-> found,
     total_extracted |-> Len(rs), errors |-> es]

ExtractIdle ==
    /\ max_reviews = None
    /\ total_found = 0
    /\ to_process = 0
    /\ index = 0
    /\ reviews = <<>>
    /\ errors = <<>>
    /\ result = None

\* if max_reviews is None: max_reviews = settings.DEFAULT_MAX_REVIEWS
MaxReviews == IF max_reviews = None THEN DEFAULT_MAX_REVIEWS ELSE max_reviews[1]

\* extract_all_reviews, lines 116-132 and 168-180: the count of the review
\* elements, which raises, is 0 or is positive.
ExtractCount ==
    /\ pc = "extract_count"
    /\ \/ /\ result' = Some(ScrapingResult(reviews, 0, Append(errors, "Critical error")))
          /\ errors' = Append(errors, "Critical error")
          /\ pc' = "extract_done"
          /\ UNCHANGED total_found
       \/ /\ total_found' = 0
          /\ errors' = Append(errors, "No review elements found on the page")
          /\ result' = Some(ScrapingResult(<<>>, 0, errors'))
          /\ pc' = "extract_done"
       \/ \E n \in 1..MaxCount :
            /\ total_found' = n
            /\ pc' = "extract_all"
            /\ UNCHANGED <<errors, result>>
    /\ UNCHANGED <<max_reviews, to_process, index, reviews, textVars, cookieVars,
                   scrollVars, runVars, saveVars>>

\* extract_all_reviews, lines 135-138: elements_to_process and the slice of
\* review_elements.all(), which raises or lists the elements then on the page.
ExtractAll ==
    /\ pc = "extract_all"
    /\ \/ /\ errors' = Append(errors, "Critical error")
          /\ result' = Some(ScrapingResult(reviews, 0, errors'))
          /\ pc' = "extract_done"
          /\ UNCHANGED <<to_process, index>>
       \/ \E len \in 0..MaxCount :
            LET elements_to_process == Min(total_found, MaxReviews)
            IN  /\ to_process' = SliceLen(len, elements_to_process)
                /\ index' = 0
                /\ pc' = "extract_loop"
                /\ UNCHANGED <<errors, result>>
    /\ UNCHANGED <<max_reviews, total_found, reviews, textVars, cookieVars,
                   scrollVars, runVars, saveVars>>

\* extract_all_reviews, lines 138-155: one pass of the loop.
ExtractOne ==
    /\ pc = "extract_loop"
    /\ index < to_process
    /\ \E e \in PageElements, dA, dB \in Draws :
         LET r == extract_single_review(e, TpState, dA[1], dA[2], dB[1], dB[2])
         IN  /\ translator_obj' = r.st.translator_obj
             /\ translate_calls' = r.st.translate_calls
             /\ IF r.review /= None
                THEN reviews' = Append(reviews, r.review[1]) /\ UNCHANGED errors
                ELSE errors' = Append(errors, "Failed to extract review")
                     /\ UNCHANGED reviews
    /\ index' = index + 1
    /\ UNCHANGED <<pc, max_reviews, total_found, to_process, result,
                   enable_translation, ops, arg, arg_element, last, cookieVars,
                   scrollVars, runVars, saveVars>>

\* extract_all_reviews, lines 157-166.
ExtractReturn ==
    /\ pc = "extract_loop"
    /\ index >= to_process
    /\ result' = Some(ScrapingResult(reviews, total_found, errors))
    /\ pc' = "extract_done"
    /\ UNCHANGED <<max_reviews, total_found, to_process, index, reviews, errors,
                   textVars, cookieVars, scrollVars, runVars, saveVars>>

\* ------------------------------------------------------ GoogleMapsScraper

\* settings.COOKIE_SELECTORS, by position in the list.
NumCookieSelectors == 6
COOKIE_SELECTORS == 1..NumCookieSelectors

\* What one pass of the selector loop meets: is_visible raises or is False,
\* or it is True and then click() raises, or click() returns and the
\* wait_for_timeout(1000) after it raises or returns.
SelectorOutcomes ==
    {"query_raises", "not_visible", "click_raises", "wait_raises", "clicked"}

CookieIdle ==
    /\ queried = <<>>
    /\ clicked = <<>>
    /\ cookie_result = None

\* handle_cookie_consent, lines 29-33 and 49-51: the first wait.
CookieWait ==
    /\ pc = "cookie_wait"
    /\ \E ok \in BOOLEAN :
         IF ok
         THEN pc' = "cookie_loop" /\ UNCHANGED cookie_result
         ELSE pc' = "cookie_done" /\ cookie_result' = Some(FALSE)
    /\ UNCHANGED <<queried, clicked, textVars, scrollVars, extractVars, runVars, saveVars>>

\* handle_cookie_consent, lines 35-44: one pass of the loop, for the next
\* selector of the list.
CookieTrySelector ==
    /\ pc = "cookie_loop"
    /\ Len(queried) < NumCookieSelectors
    /\ LET selector == Len(queried) + 1
       IN  \E o \in SelectorOutcomes :
             /\ queried' = Append(queried, selector)
             /\ clicked' = IF o \in {"wait_raises", "clicked"}
                           THEN Append(clicked, selector) ELSE clicked
             /\ IF o = "clicked"
                THEN pc' = "cookie_done" /\ cookie_result' = Some(TRUE)
                ELSE UNCHANGED <<pc, cookie_result>>
    /\ UNCHANGED <<textVars, scrollVars, extractVars, runVars, saveVars>>

\* handle_cookie_consent, lines 46-47: the list is exhausted.
CookieExhausted ==
    /\ pc = "cookie_loop"
    /\ Len(queried) = NumCookieSelectors
    /\ pc' = "cookie_done"
    /\ cookie_result' = Some(FALSE)
    /\ UNCHANGED <<queried, clicked, textVars, scrollVars, extractVars, runVars, saveVars>>

\* settings.SCROLL_ATTEMPTS, and the loop index up to which an unchanged
\* count does not stop the loop (scroll_attempt > 5).
SCROLL_ATTEMPTS == 15
GraceAttempts == 5

\* if max_attempts is None: max_attempts = settings.SCROLL_ATTEMPTS
Budget == IF max_attempts = None THEN SCROLL_ATTEMPTS ELSE max_attempts[1]

\* for scroll_attempt in range(max_attempts)
InRangeOffByOne(i, n) == i <= n
InRange(i, n) == i < n

\* lines 171-175: the early stop.
GivesUpNever(attempt_index, current_count, previous) == FALSE
GivesUpWithoutGrace(attempt_index, current_count, previous) ==
    current_count = previous
GivesUp(attempt_index, current_count, previous) ==
    current_count = previous /\ attempt_index > GraceAttempts

\* lines 171-178: previous_count after an attempt that counted.
KeepLargestCount(current_count, previous) ==
    IF current_count > previous THEN current_count ELSE previous
NextPreviousCount(current_count, previous) ==
    IF current_count = previous THEN previous ELSE current_count

\* What one attempt meets: mouse.wheel raises, or it returns and the wait
\* or the count raises, or the count returns a number of elements.
\* A record of an attempt: its loop index, what it met, the count it saw,
\* previous_count as it found it, whether an earlier attempt had seen a count
\* (had_previous), whether one has by now (seen), and the count seen by the
\* latest attempt that saw one (last_count).
NoAttempt ==
    [index |-> -1, outcome |-> "none", count |-> 0, previous |-> 0,
     had_previous |-> FALSE, seen |-> FALSE, last_count |-> 0]

ScrollIdle ==
    /\ max_attempts = None
    /\ scroll_attempt = 0
    /\ previous_count = 0
    /\ wheel_calls = 0
    /\ attempt = NoAttempt
    /\ scroll_result = None

\* scroll_to_load_reviews, lines 162-182: one pass of the loop.
ScrollAttempt ==
    /\ pc = "scroll_loop"
    /\ InRange(scroll_attempt, Budget)
    /\ wheel_calls' = wheel_calls + 1
    /\ \/ \E o \in {"wheel_raises", "wait_raises", "count_raises"} :
            /\ attempt' = [index |-> scroll_attempt, outcome |-> o, count |-> 0,
                           previous |-> previous_count,
                           had_previous |-> attempt.seen, seen |-> attempt.seen,
                           last_count |-> attempt.last_count]
            /\ scroll_attempt' = scroll_attempt + 1
            /\ UNCHANGED <<pc, previous_count>>
       \/ \E current_count \in 0..MaxCount :
            /\ attempt' = [index |-> scroll_attempt, outcome |-> "counted",
                           count |-> current_count, previous |-> previous_count,
                           had_previous |-> attempt.seen, seen |-> TRUE,
                           last_count |-> current_count]
            /\ IF GivesUp(scroll_attempt, current_count, previous_count)
               THEN pc' = "scroll_return" /\ UNCHANGED scroll_attempt
               ELSE pc' = pc /\ scroll_attempt' = scroll_attempt + 1
            /\ previous_count' = NextPreviousCount(current_count, previous_count)
    /\ UNCHANGED <<max_attempts, scroll_result, textVars, cookieVars, extractVars, runVars, saveVars>>

\* scroll_to_load_reviews, the for loop ends: the range is exhausted.
ScrollExhausted ==
    /\ pc = "scroll_loop"
    /\ ~InRange(scroll_attempt, Budget)
    /\ pc' = "scroll_return"
    /\ UNCHANGED <<scrollVars, textVars, cookieVars, extractVars, runVars, saveVars>>

\* scroll_to_load_reviews, lines 184-185.
ScrollReturn ==
    /\ pc = "scroll_return"
    /\ scroll_result' = Some(previous_count)
    /\ pc' = "scroll_done"
    /\ UNCHANGED <<max_attempts, scroll_attempt, previous_count, wheel_calls,
                   attempt, textVars, cookieVars, extractVars, runVars, saveVars>>

\* No element: the operation is applied to arg.
NoElement == [reviewer |-> Absent, rating |-> Absent, text |-> Absent, none |-> TRUE]

\* draw: what the translator was drawn to do in the call; sent: how many
\* texts the call sent to translator.translate.
NoCall == [op |-> "none", input |-> <<>>, out |-> <<>>, draw |-> <<>>, sent |-> 0]

TextIdle ==
    /\ translator_obj = None
    /\ translate_calls = 0
    /\ ops = 0
    /\ arg = <<>>
    /\ arg_element = NoElement
    /\ last = NoCall

\* --------------------------------------------------------- BrowserManager

Handles == <<"playwright", "browser", "context", "page">>
\* The order in which stop() closes them.
StopOrder == <<"page", "context", "browser", "playwright">>

\* BrowserManager.__init__: no handle is set.
NewBrowserManager ==
    [playwright |-> None, browser |-> None, context |-> None, page |-> None,
     opened |-> {}, closed |-> {}]

\* The call of start() that raises, if one does: sync_playwright().start(),
\* chromium.launch, new_context, set_default_timeout or new_page.
StartFailures == {"none", "playwright", "browser", "context", "timeout", "page"}
\* The close call of stop() that raises, if one does.
StopFailures == {"none", "page", "context", "browser", "playwright"}

\* opened: the resources opened so far; closed: those of them closed since.
Open(b, h) ==
    [b EXCEPT ![h] = Some("open"), !.opened = @ \cup {h}, !.closed = @ \ {h}]

\* BrowserManager.is_running, lines 111-118: all four handles are set.
is_running(b) == \A k \in 1..Len(Handles) : b[Handles[k]] /= None

\* BrowserManager.stop, lines 74-98: the handles that are set are closed in
\* order and reset; the first close that raises ends the cleanup, and the
\* exception is logged, not raised.
RECURSIVE stop_from(_, _, _)
stop_from(b, k, fail) ==
    IF k > Len(StopOrder) THEN b
    ELSE LET h == StopOrder[k]
         IN  IF b[h] = None THEN stop_from(b, k + 1, fail)
             ELSE IF fail = h THEN b
             ELSE stop_from([b EXCEPT ![h] = None, !.closed = @ \cup {h}],
                            k + 1, fail)

stop(b, fail) == [bm |-> stop_from(b, 1, fail), raised |-> FALSE]

\* BrowserManager.start, lines 48-70: the four handles are opened in order;
\* a call that raises leaves the later handles unset, and start() calls
\* stop() and raises again.
start(b, fail, stop_fail) ==
    LET b1 == IF fail = "playwright" THEN b ELSE Open(b, "playwright")
        b2 == IF fail \in {"playwright", "browser"} THEN b1 ELSE Open(b1, "browser")
        b3 == IF fail \in {"playwright", "browser", "context"}
              THEN b2 ELSE Open(b2, "context")
        b4 == IF fail = "none" THEN Open(b3, "page") ELSE b3
    IN  IF fail = "none" THEN [bm |-> b4, raised |-> FALSE]
        ELSE [bm |-> stop(b4, stop_fail).bm, raised |-> TRUE]

\* ------------------------------------------------------- ReviewScraperApp

\* self.max_reviews = max_reviews or settings.DEFAULT_MAX_REVIEWS
init_max_reviews(m) ==
    IF m = None \/ m[1] = 0 THEN DEFAULT_MAX_REVIEWS ELSE m[1]

\* run, lines 108-119: the except clause returns a result with one error.
ErrorResult(e) == ScrapingResult(<<>>, 0, <<e>>)
run_except_reraises(e) == [escaped |-> TRUE, result |-> None]
run_except(e) == [escaped |-> FALSE, result |-> Some(ErrorResult(e))]

\* if not <step>(): raise Exception(...)
StepNeverRaises(value) == FALSE
StepRaises(value) == ~value

\* navigate_to_maps, lines 62-71: what it does, in order.
navigate_to_maps_without_consent == <<"goto", "wait_for_timeout", "url">>
navigate_to_maps_body ==
    <<"goto", "handle_cookie_consent", "wait_for_timeout", "url">>

RunIdle ==
    /\ bm = NewBrowserManager
    /\ ctor_max_reviews = None
    /\ self_max_reviews = DEFAULT_MAX_REVIEWS
    /\ calls = <<>>
    /\ returned = <<>>
    /\ run_result = None
    /\ escaped = FALSE

Returned(step, value) == Append(returned, [step |-> step, value |-> value])

\* An exception raised in the with block: __exit__ stops the browser, and
\* the except clause of run() takes the exception.
RaiseInRun(e) ==
    /\ \E sf \in StopFailures : bm' = stop(bm, sf).bm
    /\ run_result' = run_except(e).result
    /\ escaped' = run_except(e).escaped
    /\ pc' = "run_done"

\* A gated step has returned value: run() raises or goes on to next.
AfterStep(value, e, next) ==
    IF StepRaises(value)
    THEN RaiseInRun(e)
    ELSE pc' = next /\ UNCHANGED <<bm, run_result, escaped>>

\* run, line 76: with self.browser_manager as page.
RunEnter ==
    /\ pc = "run_start"
    /\ \E f \in StartFailures, sf \in StopFailures :
         LET r == start(bm, f, sf)
         IN  /\ bm' = r.bm
             /\ IF r.raised
                THEN /\ run_result' = run_except("Failed to start browser").result
                     /\ escaped' = run_except("Failed to start browser").escaped
                     /\ pc' = "run_done"
                ELSE pc' = "navigate_to_maps" /\ UNCHANGED <<run_result, escaped>>
    /\ UNCHANGED <<ctor_max_reviews, self_max_reviews, calls, returned, textVars,
                   cookieVars, scrollVars, extractVars, saveVars>>

\* run, line 84, and navigate_to_maps, lines 60-65 and 78-80: page.goto.
NavGoto ==
    /\ pc = "navigate_to_maps"
    /\ \E ok \in BOOLEAN :
         IF ok
         THEN /\ IF navigate_to_maps_body[2] = "handle_cookie_consent"
                 THEN /\ calls' = calls \o <<"navigate_to_maps", "handle_cookie_consent">>
                      /\ pc' = "cookie_wait"
                 ELSE /\ calls' = Append(calls, "navigate_to_maps")
                      /\ pc' = "cookie_done"
              /\ UNCHANGED <<returned, bm, run_result, escaped>>
         ELSE /\ calls' = Append(calls, "navigate_to_maps")
              /\ returned' = Returned("navigate_to_maps", FALSE)
              /\ AfterStep(FALSE, "Failed to navigate to Google Maps", "search_business")
    /\ UNCHANGED <<ctor_max_reviews, self_max_reviews, textVars, cookieVars,
                   scrollVars, extractVars, saveVars>>

\* navigate_to_maps, lines 67-80, once handle_cookie_consent has returned,
\* and run, lines 84-85.
NavVerify ==
    /\ pc = "cookie_done"
    /\ \E o \in {"ok", "wait_raises", "wrong_url"} :
         /\ returned' = Returned("navigate_to_maps", o = "ok")
         /\ AfterStep(o = "ok", "Failed to navigate to Google Maps", "search_business")
    /\ queried' = <<>>
    /\ clicked' = <<>>
    /\ cookie_result' = None
    /\ UNCHANGED <<ctor_max_reviews, self_max_reviews, calls, textVars, scrollVars,
                   extractVars, saveVars>>

\* search_business, lines 92-113, and run, lines 88-89.
SearchBusiness ==
    /\ pc = "search_business"
    /\ calls' = Append(calls, "search_business")
    /\ \E o \in {"ok", "not_visible", "raises"} :
         /\ returned' = Returned("search_business", o = "ok")
         /\ AfterStep(o = "ok", "Failed to search for business", "navigate_to_reviews")
    /\ UNCHANGED <<ctor_max_reviews, self_max_reviews, textVars, cookieVars,
                   scrollVars, extractVars, saveVars>>

\* navigate_to_reviews, lines 122-143, and run, lines 92-93.
NavigateToReviews ==
    /\ pc = "navigate_to_reviews"
    /\ calls' = Append(calls, "navigate_to_reviews")
    /\ \E o \in {"ok", "not_visible", "raises"} :
         /\ returned' = Returned("navigate_to_reviews", o = "ok")
         /\ AfterStep(o = "ok", "Failed to navigate to reviews section",
                      "scroll_to_load_reviews")
    /\ UNCHANGED <<ctor_max_reviews, self_max_reviews, textVars, cookieVars,
                   scrollVars, extractVars, saveVars>>

\* run, line 96: scroll_to_load_reviews() is called with no argument.
ScrollEnter ==
    /\ pc = "scroll_to_load_reviews"
    /\ calls' = Append(calls, "scroll_to_load_reviews")
    /\ max_attempts' = None
    /\ pc' = "scroll_loop"
    /\ UNCHANGED <<scroll_attempt, previous_count, wheel_calls, attempt,
                   scroll_result, bm, ctor_max_reviews, self_max_reviews, returned,
                   run_result, escaped, textVars, cookieVars, extractVars, saveVars>>

\* run, lines 96-103: scroll_to_load_reviews has returned, and
\* extract_all_reviews is called with self.max_reviews.
ExtractEnter ==
    /\ pc = "scroll_done"
    /\ returned' = Returned("scroll_to_load_reviews", scroll_result[1])
    /\ calls' = Append(calls, "extract_all_reviews")
    /\ max_reviews' = Some(self_max_reviews)
    /\ pc' = "extract_count"
    /\ max_attempts' = None
    /\ scroll_attempt' = 0
    /\ previous_count' = 0
    /\ wheel_calls' = 0
    /\ attempt' = NoAttempt
    /\ scroll_result' = None
    /\ UNCHANGED <<total_found, to_process, index, reviews, errors, result, bm,
                   ctor_max_reviews, self_max_reviews, run_result, escaped,
                   textVars, cookieVars, saveVars>>

\* run, lines 105-106: the result is returned through __exit__, which stops
\* the browser.
RunExit ==
    /\ pc = "extract_done"
    /\ returned' = Returned("extract_all_reviews", result[1])
    /\ \E sf \in StopFailures :
         LET r == stop(bm, sf)
         IN  /\ bm' = r.bm
             /\ IF r.raised
                THEN /\ run_result' = run_except("Error during browser cleanup").result
                     /\ escaped' = run_except("Error during browser cleanup").escaped
                ELSE run_result' = result /\ UNCHANGED escaped
    /\ pc' = "run_done"
    /\ UNCHANGED <<ctor_max_reviews, self_max_reviews, calls, textVars, cookieVars,
                   scrollVars, extractVars, saveVars>>

\* ------------------------------------- ReviewScraperApp.save_results

\* The formats save_results knows, in the order it exports them.
KnownFormats == {"csv", "json", "summary"}

\* if formats is None: formats = ['csv', 'summary']
Formats == IF formats = None THEN {"csv", "summary"} ELSE formats[1]

\* The path each export writes to and returns.
PathOf(format) ==
    CASE format = "csv" -> "rex_reviews.csv"
      [] format = "json" -> "rex_result.json"
      [] format = "summary" -> "rex_summary.txt"

\* What an export does: it writes its file and returns the path, or raises
\* before the file exists, or raises with the file already created.
ExportOutcomes == {"ok", "raises_unwritten", "raises_written"}

SaveIdle ==
    /\ formats = None
    /\ written = {}
    /\ saved_files = Some(<<>>)

\* saved_files[format] = path
WithEntry(d, format) ==
    [f \in DOMAIN d \cup {format} |-> PathOf(f)]

\* save_results, lines 137-158: the export of one format.  requested: the
\* test the code makes before it; after: where save_results goes on.  An
\* export that raises ends the call in the except clause, which returns {}.
save_export(format, requested, after, o) ==
    IF ~requested
    THEN pc' = after /\ UNCHANGED <<written, saved_files>>
    ELSE /\ written' = IF o = "raises_unwritten"
                       THEN written ELSE written \cup {PathOf(format)}
         /\ IF o = "ok"
            THEN pc' = after /\ saved_files' = Some(WithEntry(saved_files[1], format))
            ELSE pc' = "save_done" /\ saved_files' = Some(<<>>)

\* save_results, lines 138-143: if 'csv' in formats and scraping_result.reviews
SaveCsv ==
    /\ pc = "save_csv"
    /\ \E o \in ExportOutcomes :
         save_export("csv", "csv" \in Formats /\ result[1].reviews /= <<>>,
                     "save_json", o)
    /\ UNCHANGED <<formats, textVars, cookieVars, scrollVars, extractVars, runVars>>

\* save_results, lines 145-147: if 'json' in formats
SaveJson ==
    /\ pc = "save_json"
    /\ \E o \in ExportOutcomes :
         save_export("json", "json" \in Formats, "save_summary", o)
    /\ UNCHANGED <<formats, textVars, cookieVars, scrollVars, extractVars, runVars>>

\* save_results, lines 149-154: if 'summary' in formats, and the return.
SaveSummary ==
    /\ pc = "save_summary"
    /\ \E o \in ExportOutcomes :
         save_export("summary", "summary" \in Formats, "save_done", o)
    /\ UNCHANGED <<formats, textVars, cookieVars, scrollVars, extractVars, runVars>>

\* ------------------------------------- handle_cookie_consent on its own

InitCookie ==
    /\ RunIdle
    /\ SaveIdle
    /\ pc = "cookie_wait"
    /\ CookieIdle
    /\ ScrollIdle
    /\ ExtractIdle
    /\ TextIdle
    /\ enable_translation = FALSE

NextCookie ==
    \/ CookieWait
    \/ CookieTrySelector
    \/ CookieExhausted

SpecCookie == InitCookie /\ [][NextCookie]_vars

\* ------------------------------------- scroll_to_load_reviews on its own

InitScroll ==
    /\ RunIdle
    /\ SaveIdle
    /\ pc = "scroll_loop"
    /\ CookieIdle
    /\ ExtractIdle
    /\ TextIdle
    /\ enable_translation = FALSE
    /\ max_attempts \in {None} \cup {Some(n) : n \in 0..MaxAttempts}
    /\ scroll_attempt = 0
    /\ previous_count = 0
    /\ wheel_calls = 0
    /\ attempt = NoAttempt
    /\ scroll_result = None

NextScroll ==
    \/ ScrollAttempt
    \/ ScrollExhausted
    \/ ScrollReturn

SpecScroll == InitScroll /\ [][NextScroll]_vars

\* The loop is the only thing running: a pass that can be made is made.
FairSpecScroll == SpecScroll /\ WF_vars(NextScroll)

\* --------------------------------------- extract_all_reviews on its own

InitExtract ==
    /\ RunIdle
    /\ SaveIdle
    /\ pc = "extract_count"
    /\ CookieIdle
    /\ ScrollIdle
    /\ TextIdle
    /\ enable_translation \in BOOLEAN
    /\ max_reviews \in {None} \cup {Some(n) : n \in -MaxCount..MaxCount}
    /\ total_found = 0
    /\ to_process = 0
    /\ index = 0
    /\ reviews = <<>>
    /\ errors = <<>>
    /\ result = None

NextExtract ==
    \/ ExtractCount
    \/ ExtractAll
    \/ ExtractOne
    \/ ExtractReturn

SpecExtract == InitExtract /\ [][NextExtract]_vars

\* ------------------------------------------------ BrowserManager on its own

\* A BrowserManager right after construction; start(), stop() and restart()
\* are called on it in any order, MaxCalls times at most.
InitBrowser ==
    /\ RunIdle
    /\ SaveIdle
    /\ CookieIdle
    /\ ScrollIdle
    /\ ExtractIdle
    /\ TextIdle
    /\ enable_translation = FALSE
    /\ pc = "browser"

CallStart ==
    /\ pc = "browser"
    /\ ops < MaxCalls
    /\ \E fail \in StartFailures, stop_fail \in StopFailures :
         LET r == start(bm, fail, stop_fail)
         IN  /\ bm' = r.bm
             /\ last' = [op |-> "start", input |-> <<fail, stop_fail>>,
                         out |-> r.raised, draw |-> <<>>, sent |-> 0]
    /\ ops' = ops + 1
    /\ UNCHANGED <<enable_translation, translator_obj, translate_calls, arg,
                   arg_element, pc, cookieVars, scrollVars, extractVars,
                   ctor_max_reviews, self_max_reviews, calls, returned,
                   run_result, escaped, saveVars>>

CallStop ==
    /\ pc = "browser"
    /\ ops < MaxCalls
    /\ \E stop_fail \in StopFailures :
         LET r == stop(bm, stop_fail)
         IN  /\ bm' = r.bm
             /\ last' = [op |-> "stop", input |-> <<stop_fail>>, out |-> r.raised,
                         draw |-> <<>>, sent |-> 0]
    /\ ops' = ops + 1
    /\ UNCHANGED <<enable_translation, translator_obj, translate_calls, arg,
                   arg_element, pc, cookieVars, scrollVars, extractVars,
                   ctor_max_reviews, self_max_reviews, calls, returned,
                   run_result, escaped, saveVars>>

\* BrowserManager.restart, lines 100-109: stop(), then start().
CallRestart ==
    /\ pc = "browser"
    /\ ops < MaxCalls
    /\ \E first_fail \in StopFailures, fail \in StartFailures,
          stop_fail \in StopFailures :
         LET r == start(stop(bm, first_fail).bm, fail, stop_fail)
         IN  /\ bm' = r.bm
             /\ last' = [op |-> "restart",
                         input |-> <<first_fail, fail, stop_fail>>,
                         out |-> r.raised, draw |-> <<>>, sent |-> 0]
    /\ ops' = ops + 1
    /\ UNCHANGED <<enable_translation, translator_obj, translate_calls, arg,
                   arg_element, pc, cookieVars, scrollVars, extractVars,
                   ctor_max_reviews, self_max_reviews, calls, returned,
                   run_result, escaped, saveVars>>

NextBrowser ==
    \/ CallStart
    \/ CallStop
    \/ CallRestart

SpecBrowser == InitBrowser /\ [][NextBrowser]_vars

\* ------------------------------------------------ save_results on its own

\* The results save_results is given: of a run that extracted nothing, one
\* review, or MaxCount reviews.
SampleReview ==
    [reviewer |-> <<"a">>, rating |-> <<"5">>, review_text |-> <<"a">>,
     business_name |-> business_name, translated |-> FALSE,
     original_language |-> None]

RECURSIVE Repeat(_, _)
Repeat(x, n) == IF n = 0 THEN <<>> ELSE Append(Repeat(x, n - 1), x)

InitSave ==
    /\ RunIdle
    /\ CookieIdle
    /\ ScrollIdle
    /\ TextIdle
    /\ enable_translation = FALSE
    /\ pc = "save_csv"
    /\ max_reviews = None
    /\ total_found \in 0..MaxCount
    /\ to_process = 0
    /\ index = 0
    /\ \E n \in 0..total_found : reviews = Repeat(SampleReview, n)
    /\ errors = <<>>
    /\ result = Some(ScrapingResult(reviews, total_found, errors))
    /\ formats \in {None} \cup {Some(fs) : fs \in SUBSET KnownFormats}
    /\ written = {}
    /\ saved_files = Some(<<>>)

NextSave ==
    \/ SaveCsv
    \/ SaveJson
    \/ SaveSummary

SpecSave == InitSave /\ [][NextSave]_vars

\* ------------------------------------------------ ReviewScraperApp.run()

Init ==
    /\ pc = "run_start"
    /\ SaveIdle
    /\ CookieIdle
    /\ ScrollIdle
    /\ ExtractIdle
    /\ TextIdle
    /\ enable_translation \in BOOLEAN
    /\ bm = NewBrowserManager
    /\ ctor_max_reviews \in {None} \cup {Some(n) : n \in -1..MaxCount}
    /\ self_max_reviews = init_max_reviews(ctor_max_reviews)
    /\ calls = <<>>
    /\ returned = <<>>
    /\ run_result = None
    /\ escaped = FALSE

Next ==
    \/ RunEnter
    \/ NavGoto
    \/ CookieWait
    \/ CookieTrySelector
    \/ CookieExhausted
    \/ NavVerify
    \/ SearchBusiness
    \/ NavigateToReviews
    \/ ScrollEnter
    \/ ScrollAttempt
    \/ ScrollExhausted
    \/ ScrollReturn
    \/ ExtractEnter
    \/ ExtractCount
    \/ ExtractAll
    \/ ExtractOne
    \/ ExtractReturn
    \/ RunExit

Spec == Init /\ [][Next]_vars

\* ------------------------------------------- the text processor on its own

Texts ==
    SeqsUpTo(Chars, MaxTextLen)
        \cup {NoneText, NoReviewText, <<" ">> \o NoReviewText \o <<"\n">>}

\* A TextProcessor right after construction, and the text or the review
\* element the next operation is applied to.
InitText ==
    /\ RunIdle
    /\ SaveIdle
    /\ pc = "text"
    /\ CookieIdle
    /\ ScrollIdle
    /\ ExtractIdle
    /\ enable_translation \in BOOLEAN
    /\ translator_obj = None
    /\ translate_calls = 0
    /\ ops = 0
    /\ last = NoCall
    /\ \/ arg \in Texts /\ arg_element = NoElement
       \/ arg = <<>> /\ arg_element \in Elements

CallCleanText ==
    /\ ops < MaxOps
    /\ arg_element = NoElement
    /\ last' = [op |-> "clean_text", input |-> arg, out |-> clean_text(arg),
                draw |-> <<>>, sent |-> 0]
    /\ arg' = clean_text(arg)
    /\ ops' = ops + 1
    /\ UNCHANGED <<enable_translation, translator_obj, translate_calls, arg_element,
                   pc, cookieVars, scrollVars, extractVars, runVars, saveVars>>

CallTranslateText ==
    /\ ops < MaxOps
    /\ arg_element = NoElement
    /\ \E d \in Draws :
         LET r == translate_text(arg, TpState, d[1], d[2])
         IN  /\ last' = [op |-> "translate_text", input |-> arg, out |-> r.out,
                         draw |-> d,
                         sent |-> r.st.translate_calls - translate_calls]
             /\ arg' = r.out[1]
             /\ translator_obj' = r.st.translator_obj
             /\ translate_calls' = r.st.translate_calls
    /\ ops' = ops + 1
    /\ UNCHANGED <<enable_translation, arg_element, pc, cookieVars, scrollVars, extractVars, runVars, saveVars>>

CallProcessText ==
    /\ ops < MaxOps
    /\ arg_element = NoElement
    /\ \E d \in Draws :
         LET r == process_text(arg, TpState, d[1], d[2])
         IN  /\ last' = [op |-> "process_text", input |-> arg, out |-> r.out,
                         draw |-> d,
                         sent |-> r.st.translate_calls - translate_calls]
             /\ arg' = r.out[1]
             /\ translator_obj' = r.st.translator_obj
             /\ translate_calls' = r.st.translate_calls
    /\ ops' = ops + 1
    /\ UNCHANGED <<enable_translation, arg_element, pc, cookieVars, scrollVars, extractVars, runVars, saveVars>>

CallExtractSingleReview ==
    /\ ops < MaxOps
    /\ arg_element /= NoElement
    /\ \E dA, dB \in Draws :
         LET r == extract_single_review(arg_element, TpState, dA[1], dA[2],
                                        dB[1], dB[2])
         IN  /\ last' = [op |-> "extract_single_review", input |-> arg_element,
                         out |-> r.review, draw |-> <<dA, dB>>,
                         sent |-> r.st.translate_calls - translate_calls]
             /\ translator_obj' = r.st.translator_obj
             /\ translate_calls' = r.st.translate_calls
    /\ ops' = ops + 1
    /\ UNCHANGED <<enable_translation, arg, arg_element, pc, cookieVars, scrollVars, extractVars, runVars, saveVars>>

NextText ==
    \/ CallCleanText
    \/ CallTranslateText
    \/ CallProcessText
    \/ CallExtractSingleReview

SpecText == InitText /\ [][NextText]_vars

\* ================================================================== claims

\* The steps of run() the claims speak of, in the order of the pipeline; the
\* first three are gated: run() goes on only if they return True.
RunSteps ==
    <<"navigate_to_maps", "search_business", "navigate_to_reviews",
      "scroll_to_load_reviews", "extract_all_reviews">>
GatedSteps == {"navigate_to_maps", "search_business", "navigate_to_reviews"}
IsStep(c) == c /= "handle_cookie_consent"
StepCalls == SelectSeq(calls, IsStep)
Failed(step) ==
    \E j \in 1..Len(returned) : returned[j].step = step /\ returned[j].value = FALSE

\* C1: run() invokes navigate_to_maps, search_business, navigate_to_reviews,
\* scroll_to_load_reviews, extract_all_reviews in that order, a step only
\* after every earlier step has returned, the gated ones with True: after a
\* gated step returned False no later step is invoked.
C1_StepsInOrderAndGated ==
    /\ Len(StepCalls) <= Len(RunSteps)
    /\ \A i \in 1..Len(StepCalls) :
         /\ StepCalls[i] = RunSteps[i]
         /\ \A j \in 1..(i - 1) :
              /\ j <= Len(returned)
              /\ returned[j].step = RunSteps[j]
              /\ RunSteps[j] \in GatedSteps => returned[j].value = TRUE
    /\ \A g \in GatedSteps :
         Failed(g) => pc = "run_done" /\ StepCalls[Len(StepCalls)] = g

\* A run that went through all five steps, and the run has returned.
C1_Witness ==
    /\ pc = "run_done"
    /\ StepCalls = RunSteps
    /\ Len(run_result[1].reviews) = MaxCount

\* C2 as stated: handle_cookie_consent is never invoked before
\* search_business has completed.
C2_ConsentAfterSearch ==
    (\E i \in 1..Len(calls) : calls[i] = "handle_cookie_consent") =>
        (\E j \in 1..Len(returned) : returned[j].step = "search_business")

\* C2 as amended: handle_cookie_consent is invoked inside navigate_to_maps,
\* right after page.goto and so before search_business is invoked; it is
\* invoked at most once in a run and never after search_business, and
\* search_business is invoked only after it.
C2_ConsentInsideNavigate ==
    /\ \A i \in 1..Len(calls) :
         calls[i] = "handle_cookie_consent" =>
            /\ i = 2
            /\ calls[1] = "navigate_to_maps"
    /\ \A j \in 1..Len(calls) :
         calls[j] = "search_business" =>
            /\ j = 3
            /\ calls[2] = "handle_cookie_consent"
    /\ pc \in {"cookie_wait", "cookie_loop"} =>
         calls = <<"navigate_to_maps", "handle_cookie_consent">>

\* The consent handler ran inside a navigate_to_maps that returned True, and
\* after the search the reviews tab was asked for.
C2_Witness ==
    /\ Len(calls) >= 4
    /\ calls[2] = "handle_cookie_consent"
    /\ calls[4] = "navigate_to_reviews"
    /\ returned[1].value = TRUE

\* C6: for every max_reviews >= 0 given to the constructor (0 included)
\* the result of run() holds at most max_reviews reviews.
C6_RunCappedByConstructorArgument ==
    (pc = "run_done" /\ ctor_max_reviews /= None /\ ctor_max_reviews[1] >= 0) =>
        Len(run_result[1].reviews) <= ctor_max_reviews[1]

\* C6, its second sentence: max_reviews = None is the only constructor
\* argument that selects settings.DEFAULT_MAX_REVIEWS.
C6_OnlyNoneSelectsDefault ==
    self_max_reviews = DEFAULT_MAX_REVIEWS => ctor_max_reviews = None

StartFailed == pc = "run_done" /\ calls = <<>>
GatedStepFailed == \E g \in GatedSteps : Failed(g)

\* C7: no exception leaves run(); when run() has returned there is a
\* ScrapingResult, and after a browser-start error or a failed navigate,
\* search or reviews-tab step it has no reviews, total_found = 0,
\* total_extracted = 0 and exactly one error message.
C7_RunAlwaysReturnsResult ==
    /\ ~escaped
    /\ pc = "run_done" =>
         /\ run_result /= None
         /\ (StartFailed \/ GatedStepFailed) =>
              /\ run_result[1].reviews = <<>>
              /\ run_result[1].total_found = 0
              /\ run_result[1].total_extracted = 0
              /\ Len(run_result[1].errors) = 1

\* The reviews tab was not found, the browser shutdown raised as well, and
\* run() has returned.
C7_Witness ==
    /\ pc = "run_done"
    /\ Failed("navigate_to_reviews")
    /\ bm.page /= None
    /\ run_result /= None

\* C3: scroll_to_load_reviews makes at most max_attempts scroll gestures
\* (settings.SCROLL_ATTEMPTS when max_attempts is None), every pass of the
\* loop, raising or not, uses up one attempt, and the call terminates.
C3_ScrollBudget ==
    /\ [](/\ wheel_calls <= Budget
          /\ pc = "scroll_loop" => wheel_calls = scroll_attempt)
    /\ <>(pc = "scroll_done")

\* The whole default budget was used, the last attempt raising.
C3_Witness ==
    /\ pc = "scroll_done"
    /\ max_attempts = None
    /\ wheel_calls = SCROLL_ATTEMPTS
    /\ attempt.outcome = "count_raises"

\* C4 as stated: after an attempt whose observed count is not greater than
\* the previously observed count, no further scroll gesture is made.
C4_StopsWhenCountStopsIncreasing ==
    [][(/\ attempt.outcome = "counted"
        /\ attempt.had_previous
        /\ attempt.count <= attempt.previous) => wheel_calls' = wheel_calls]_vars

\* C4 as amended: after an attempt with loop index greater than 5 whose
\* observed count equals previous_count no further scroll gesture is made,
\* and the loop ends in no other way before its attempts are used up.
C4_StopsAfterGraceWhenCountUnchanged ==
    /\ [][(/\ attempt.outcome = "counted"
           /\ attempt.index > GraceAttempts
           /\ attempt.count = attempt.previous) => wheel_calls' = wheel_calls]_vars
    /\ [](pc \in {"scroll_return", "scroll_done"} =>
            \/ wheel_calls = Budget
            \/ /\ attempt.outcome = "counted"
               /\ attempt.index > GraceAttempts
               /\ attempt.count = attempt.previous)

\* The loop stopped early, at its seventh attempt, on an unchanged count.
C4_Witness ==
    /\ pc = "scroll_done"
    /\ attempt.outcome = "counted"
    /\ attempt.index = GraceAttempts + 1
    /\ attempt.count = attempt.previous
    /\ attempt.count > 0
    /\ wheel_calls < Budget

\* The last attempt saw the count it found in previous_count, past the grace.
StaleAttempt ==
    /\ attempt.outcome = "counted"
    /\ attempt.index > 5
    /\ attempt.count = attempt.previous

\* C14: with max_attempts at least 7, scroll_to_load_reviews does not leave
\* its loop before 7 scroll gestures have been made, whatever the counts; and
\* the loop stops early at the first attempt with loop index greater than 5
\* whose count equals the previous count: no such attempt is followed by
\* another, and a loop left with attempts to spare has just made one.
C14_GraceBeforeGivingUp ==
    /\ (pc \in {"scroll_return", "scroll_done"} /\ Budget >= 7) => wheel_calls >= 7
    /\ pc = "scroll_loop" => ~StaleAttempt
    /\ (pc \in {"scroll_return", "scroll_done"} /\ wheel_calls < Budget)
          => StaleAttempt /\ wheel_calls = attempt.index + 1

\* The count never changed from 0 and the loop stopped after 7 gestures with
\* an eighth attempt to spare.
C14_Witness ==
    /\ pc = "scroll_done"
    /\ max_attempts = Some(8)
    /\ wheel_calls = 7
    /\ attempt.index = 6
    /\ attempt.outcome = "counted"
    /\ attempt.count = 0
    /\ attempt.previous = 0
    /\ ~attempt.had_previous

\* C15: scroll_to_load_reviews returns the count seen by the last attempt of
\* the call whose count query succeeded, also when that count is smaller than
\* the one before, and 0 when none succeeded or max_attempts is 0.
C15_ReturnsLastObservedCount ==
    pc = "scroll_done" =>
        /\ scroll_result = Some(IF attempt.seen THEN attempt.last_count ELSE 0)
        /\ Budget = 0 => scroll_result = Some(0)

\* The last attempt saw fewer elements than the one before, and its count
\* was returned.
C15_Witness ==
    /\ pc = "scroll_done"
    /\ attempt.outcome = "counted"
    /\ attempt.had_previous
    /\ attempt.count < attempt.previous
    /\ scroll_result = Some(attempt.count)

\* C5: for every number of review elements and every integer max_reviews
\* the ScrapingResult that extract_all_reviews returns holds at most
\* max(0, min(total_found, max_reviews)) reviews.
C5_ReviewsCapped ==
    (pc = "extract_done" /\ max_reviews /= None) =>
        Len(result[1].reviews) <= Max(0, Min(total_found, max_reviews[1]))

\* C8: handle_cookie_consent clicks at most one button, queries no selector
\* after a click, and returns True exactly when one button was clicked.
C8_CookieClicksOnceAndStops ==
    /\ Len(clicked) <= 1
    /\ clicked /= <<>> => queried[Len(queried)] = clicked[1]
    /\ pc = "cookie_done" => (cookie_result = Some(TRUE) <=> Len(clicked) = 1)

\* C11: when save_results has returned, the dictionary it returns has an
\* entry for exactly each file written during the call, also when a later
\* export of the call raised.
C11_SavedFilesAreTheFilesWritten ==
    pc = "save_done" =>
        {saved_files[1][f] : f \in DOMAIN saved_files[1]} = written

\* C12: after stop() has returned, and after start() has failed and raised
\* again, is_running() is False, every handle is None and every resource that
\* had been opened has been closed, whichever close call raised; stop() itself
\* never raises.
C12_NoResourceLeak ==
    (pc = "browser" /\ (last.op = "stop" \/ (last.op = "start" /\ last.out)))
        => /\ ~is_running(bm)
           /\ \A k \in 1..Len(Handles) : bm[Handles[k]] = None
           /\ bm.opened \subseteq bm.closed
           /\ last.op = "stop" => ~last.out

\* C13: when extract_single_review is given an element that lacks the
\* reviewer, the rating or the text sub-element (and no query on it raises),
\* it returns a Review whose corresponding field is exactly "Unknown",
\* "No rating" or "No review text", with translation enabled or not; a
\* defaulted review text is not sent to the translator and has
\* translated = False.
C13_DefaultsSurviveProcessing ==
    (/\ pc = "text"
     /\ last.op = "extract_single_review"
     /\ "raise" \notin {last.input.reviewer.kind, last.input.rating.kind,
                        last.input.text.kind})
        => /\ last.out /= None
           /\ last.input.reviewer.kind = "absent"
                => last.out[1].reviewer = UnknownReviewer
           /\ last.input.rating.kind = "absent"
                => last.out[1].rating = NoRating
           /\ last.input.text.kind = "absent"
                => /\ last.out[1].review_text = NoReviewText
                   /\ last.out[1].translated = FALSE
                   /\ \A d \in Draws :
                        translate_text(NoReviewText, TpState, d[1], d[2]).st
                            = TpState

\* C16: translate_text always returns.  When the translator raised, or was
\* not called, it returns (text, False, None) with the input text.  When the
\* translator returned, was_translated is True exactly when its output
\* differs from the input; then the text returned is the translator's output
\* and original_language is 'auto'; when the output equals the input the
\* result is (text, False, target_language).
C16_TranslateTextReportsFaithfully ==
    (pc = "text" /\ last.op = "translate_text") =>
        LET text == last.input
            translated == TranslatorOutput(text, last.draw[2])
        IN  IF last.sent = 0 \/ last.draw[2] = "raise"
            THEN last.out = <<text, FALSE, None>>
            ELSE /\ last.out[2] <=> (translated /= text)
                 /\ last.out[2] =>
                        last.out = <<translated, TRUE, Some("auto")>>
                 /\ ~last.out[2] =>
                        last.out = <<text, FALSE, Some(target_language)>>

\* Two calls have reached translator.translate, and in the last one it
\* returned the text unchanged.
C16_Witness ==
    /\ pc = "text"
    /\ last.op = "translate_text"
    /\ last.sent = 1
    /\ last.draw[2] = "same"
    /\ last.out = <<last.input, FALSE, Some(target_language)>>
    /\ ops = 2
    /\ translate_calls = 2

ContainsEmoji(s) ==
    \E i \in 1..Len(s) :
        \/ s[i] = "E"
        \/ s[i] = "#" /\ i < Len(s) /\ s[i + 1] = "K"
HasWhitespaceRun(s) == \E i \in 1..(Len(s) - 1) : IsSpace(s[i]) /\ IsSpace(s[i + 1])
HasOuterWhitespace(s) == s /= <<>> /\ (IsSpace(s[1]) \/ IsSpace(s[Len(s)]))

\* C9: for every input, clean_text returns a string with no emoji, no run
\* of two or more whitespace characters and no leading or trailing
\* whitespace ("" for an empty or None input), and
\* clean_text(clean_text(x)) = clean_text(x).
C9_CleanTextNormalForm ==
    last.op = "clean_text" =>
        /\ ~ContainsEmoji(last.out)
        /\ ~HasWhitespaceRun(last.out)
        /\ ~HasOuterWhitespace(last.out)
        /\ Falsy(last.input) => last.out = <<>>
        /\ clean_text(last.out) = last.out

\* The whitespace half of C9, which the code does give.
C9_WhitespaceNormalForm ==
    last.op = "clean_text" =>
        /\ ~HasWhitespaceRun(last.out)
        /\ ~HasOuterWhitespace(last.out)
        /\ Falsy(last.input) => last.out = <<>>

\* C10: with enable_translation = False the translator is never created
\* nor called, process_text returns (clean_text(text), False, None), and a
\* Review that extract_single_review builds has translated = False and
\* original_language = None.
C10_TranslationDisabled ==
    ~enable_translation =>
        /\ translator_obj = None
        /\ translate_calls = 0
        /\ last.op = "process_text" =>
               last.out = <<clean_text(last.input), FALSE, None>>
        /\ (last.op = "extract_single_review" /\ last.out /= None) =>
               /\ last.out[1].translated = FALSE
               /\ last.out[1].original_language = None

\* A review was extracted, and a text was processed twice, with translation off.
C10_Witness ==
    /\ ~enable_translation
    /\ ops = MaxOps
    /\ \/ last.op = "extract_single_review" /\ last.out /= None
             /\ last.out[1].review_text = <<"a", " ", "a">>
       \/ last.op = "process_text" /\ last.out[1] = <<"a">>

=============================================================================
